---- MODULE Spec2Model ----
(***************************************************************************)
(* Model of src/app.py: the cached fetch-and-transform step                *)
(* get_market_data (lines 20-50), the script body that calls it and        *)
(* renders the three indicator panels (lines 52-140) and the               *)
(* recommendation rule (lines 148-162).                                    *)
(*                                                                         *)
(* Units.  Rates (SOFR, IORB, Rate_Spread) are held in hundredths of a     *)
(* percentage point, so the threshold 0.05 is 5.  Net_Liquidity is held in *)
(* millionths of the code's unit, so WALCL/1000000 - WTREGEN/1000 -        *)
(* RRPONTSYD/1000 is WALCL - 1000*WTREGEN - 1000*RRPONTSYD.  Liq_MA20 is   *)
(* held as the window sum (RollingWindow times the mean).  A cell is a     *)
(* record [ok, x]: ok = FALSE is pandas' NaN.  Dates are day numbers; day  *)
(* d is a business day iff d % 7 is in 1..5, and d % 7 = 3 is the weekly   *)
(* release day of the weekly FRED series.                                  *)
(*                                                                         *)
(* Spec runs two sessions against the shared cache with a clock and with   *)
(* either fetch failing; SpecData runs one pass over every modelled        *)
(* response of the two sources.                                            *)
(***************************************************************************)
EXTENDS Integers, Sequences, FiniteSets, TLC

VARIABLES
    pc,         \* per session: position of the script run
    lock,       \* owner of the cache's compute lock, or NoOwner
    cache,      \* the single memoized entry of get_market_data
    now,        \* wall clock, seconds
    df,         \* per session: the value bound at line 52
    df_fred,    \* per session: local df_fred of get_market_data
    df_yf,      \* per session: local df_yf of get_market_data
    df_filled,  \* per session: line 40's frame after fillna, before dropna
    requests,   \* per session: network requests issued in the current pass
    raised,     \* per session: which fetch raised in the current pass
    shown,      \* per session: page elements emitted in the current pass
    failure,    \* per session: unhandled exception ending the pass
    view,       \* per session: the values the presenter computed
    hit,        \* per session: the entry the cache served to the current pass
    hist        \* history of computations, failures and aborts

vars == <<pc, lock, cache, now, df, df_fred, df_yf, df_filled, requests,
          raised, shown, failure, view, hit, hist>>

-----------------------------------------------------------------------------
(* Bounds of the model *)

\* length of the trailing window in days (the code's 365*2, line 24)
WindowDays == 25

\* number of half-ttl clock steps the clock may take
MaxTicks == 4

-----------------------------------------------------------------------------
(* Program constants *)

ttl == 3600
RollingWindow == 20
LastPos == -1
PrevPos_mut == LastPos - 3
PrevPos == -5
CriticalSpread == 5
FearLevel == 25

FredTickers == {"WALCL", "WTREGEN", "RRPONTSYD", "SOFR", "IORB", "T10Y2Y"}
YfTickers == {"^GSPC", "^VIX", "^MOVE"}
RawColumns == FredTickers \cup YfTickers

Sessions == {"s1", "s2"}
NoOwner == "nobody"

-----------------------------------------------------------------------------
(* Cells and frames *)

NaN == [ok |-> FALSE, x |-> 0]
Num(x) == [ok |-> TRUE, x |-> x]

CellSub(a, b) == IF a.ok /\ b.ok THEN Num(a.x - b.x) ELSE NaN
CellScale(a, k) == IF a.ok THEN Num(a.x * k) ELSE NaN

Dates(t) == {t[i].date : i \in DOMAIN t}

Max(S) == CHOOSE m \in S : \A e \in S : e <= m

Min(S) == CHOOSE m \in S : \A e \in S : m <= e

\* the dates of S in ascending order
SortedDates(S) ==
    IF S = {} THEN << >>
    ELSE LET lo == Min(S)
             hi == Max(S)
         IN  SelectSeq([i \in 1..(hi - lo + 1) |-> lo + i - 1],
                       LAMBDA d : d \in S)

\* the function f with every value computed (f itself, as a table of values)
Tabulate(f) == f @@ f

\* the sequence f[1], ..., f[n]
RECURSIVE SeqOf(_, _)
SeqOf(f, n) == IF n = 0 THEN << >> ELSE Append(SeqOf(f, n - 1), f[n])

RowOn(t, d, cols) ==
    IF \E i \in DOMAIN t : t[i].date = d
    THEN t[CHOOSE i \in DOMAIN t : t[i].date = d].v
    ELSE Tabulate([c \in cols |-> NaN])

\* pd.concat([df_fred, df_yf], axis=1): outer join on the index
Concat(a, b) ==
    LET idx == SortedDates(Dates(a) \cup Dates(b))
    IN  SeqOf([i \in DOMAIN idx |->
                 [date |-> idx[i],
                  v |-> RowOn(a, idx[i], FredTickers)
                            @@ RowOn(b, idx[i], YfTickers)]],
              Len(idx))

RECURSIVE SumCells(_, _, _)
SumCells(t, S, c) ==
    IF S = {} THEN 0
    ELSE LET i == CHOOSE j \in S : TRUE
         IN  t[i].v[c].x + SumCells(t, S \ {i}, c)

\* mean of the non-missing observations of column c among the rows g
GroupMean(t, g, c) ==
    LET obs == {i \in g : t[i].v[c].ok}
    IN  IF obs = {} THEN NaN
        ELSE Num(SumCells(t, obs, c) \div Cardinality(obs))

\* .resample('D').mean(): one row per calendar day from the first to the last
Resample(t) ==
    IF Len(t) = 0 THEN << >>
    ELSE LET lo == t[1].date
             hi == t[Len(t)].date
         IN  SeqOf([i \in 1..(hi - lo + 1) |->
                      LET g == {j \in DOMAIN t : t[j].date = lo + i - 1}
                      IN  [date |-> lo + i - 1,
                           v |-> Tabulate([c \in RawColumns |->
                                              GroupMean(t, g, c)])]],
                   hi - lo + 1)

\* fillna(method='ffill', limit=1): a value is carried one row only
Ffill_limit1(t) ==
    SeqOf([n \in DOMAIN t |->
             [date |-> t[n].date,
              v |-> Tabulate([c \in DOMAIN t[n].v |->
                       IF t[n].v[c].ok \/ n = 1 THEN t[n].v[c]
                       ELSE t[n - 1].v[c]])]],
          Len(t))

RECURSIVE FfillPrefix(_, _)
FfillPrefix(t, n) ==
    IF n = 0 THEN << >>
    ELSE LET done == FfillPrefix(t, n - 1)
             row == [date |-> t[n].date,
                     v |-> Tabulate([c \in DOMAIN t[n].v |->
                              IF t[n].v[c].ok THEN t[n].v[c]
                              ELSE IF n = 1 THEN NaN
                              ELSE done[n - 1].v[c]])]
         IN  Append(done, row)

\* .fillna(method='ffill')
Ffill(t) == FfillPrefix(t, Len(t))

RowComplete(r) == \A c \in DOMAIN r.v : r.v[c].ok

RowEmpty(r) == \A c \in DOMAIN r.v : ~r.v[c].ok
RowNotEmpty(r) == ~RowEmpty(r)

\* dropna(how='all'): drop only the rows with every value missing
Dropna_all(t) == SelectSeq(t, RowNotEmpty)

\* .dropna(): drop every row holding a missing value
Dropna(t) == SelectSeq(t, RowComplete)

\* line 44
NetLiquidity(v) ==
    CellSub(CellSub(v["WALCL"], CellScale(v["WTREGEN"], 1000)),
            CellScale(v["RRPONTSYD"], 1000))

\* line 46
RateSpread(v) == CellSub(v["SOFR"], v["IORB"])

\* line 48: .rolling(window=20).mean() of column c, as the window sum
RollingSum(t, i, c) ==
    IF i < RollingWindow THEN NaN
    ELSE LET w == (i - RollingWindow + 1)..i
         IN  IF \A j \in w : t[j].v[c].ok THEN Num(SumCells(t, w, c)) ELSE NaN

\* lines 44-48
Derive(t) ==
    LET t1 == [i \in DOMAIN t |->
                 [date |-> t[i].date,
                  v |-> t[i].v @@ ("Net_Liquidity" :> NetLiquidity(t[i].v))]]
        t2 == SeqOf([i \in DOMAIN t |->
                       [date |-> t1[i].date,
                        v |-> t1[i].v @@ ("Rate_Spread" :> RateSpread(t1[i].v))]],
                    Len(t))
    IN  SeqOf([i \in DOMAIN t |->
                 [date |-> t2[i].date,
                  v |-> t2[i].v
                            @@ ("Liq_MA20" :> RollingSum(t2, i, "Net_Liquidity"))]],
              Len(t))

\* line 40 up to and including fillna
Filled(fred, yf) == Ffill(Resample(Concat(fred, yf)))

\* line 40's dropna and lines 44-50
Finish(filled) == Derive(Dropna(filled))

\* lines 39-50
Transform(fred, yf) == Finish(Filled(fred, yf))

-----------------------------------------------------------------------------
(* What the two data sources return *)

\* lines 23-24: the trailing window; day 1 is a Monday
end_date == WindowDays + 1
start_date == end_date - WindowDays

IsBusinessDay(d) == (d % 7) \in 1..5
IsWeeklyRelease(d) == (d % 7) = 3

SpreadPattern(d) == CASE d % 3 = 0 -> 0 [] d % 3 = 1 -> 4 [] OTHER -> 5

\* line 29: the FRED panel over [start_date, end_date].  Daily series report
\* on business days, the balance-sheet series weekly; IORB is first
\* published on day p.iorbFirst.
FredPanel(p) ==
    LET idx == SortedDates({d \in start_date..end_date : IsBusinessDay(d)})
    IN  SeqOf([i \in DOMAIN idx |->
            LET d == idx[i]
            IN  [date |-> d,
                 v |-> Tabulate([c \in FredTickers |->
                    CASE c = "WALCL" ->
                            IF IsWeeklyRelease(d) THEN Num(7000000 + 1000 * d) ELSE NaN
                      [] c = "WTREGEN" ->
                            IF IsWeeklyRelease(d) THEN Num(700 + d) ELSE NaN
                      [] c = "RRPONTSYD" -> Num(500 + p.rrpStep * d)
                      [] c = "SOFR" -> Num(440 + p.sofrOffset + SpreadPattern(d))
                      [] c = "IORB" -> IF d >= p.iorbFirst THEN Num(440) ELSE NaN
                      [] OTHER -> Num(d - 10)])]],
              Len(idx))

\* line 36: the closing prices over [start_date, end_date), trading days
\* only; ^MOVE has no quote before day q.moveFirst.
YfPanel(q) ==
    LET idx == SortedDates({d \in start_date..(end_date - 1) : IsBusinessDay(d)})
    IN  SeqOf([i \in DOMAIN idx |->
            LET d == idx[i]
            IN  [date |-> d,
                 v |-> Tabulate([c \in YfTickers |->
                    CASE c = "^GSPC" -> Num(5000 + d)
                      [] c = "^VIX" -> Num(q.vixBase + (d % 2))
                      [] OTHER -> IF d >= q.moveFirst THEN Num(100 + d)
                                  ELSE NaN])]],
              Len(idx))

FredResponses ==
    [iorbFirst : start_date..(end_date + 1), sofrOffset : {-5, -1, 0, 1},
     rrpStep : {-1, 0, 1}]
YfResponses ==
    [vixBase : {23, 24, 25},
     moveFirst : {start_date, start_date + 10, end_date + 1}]

\* the responses the caching protocol is exercised with: a long table and
\* one too short for the presenter
FewFredResponses ==
    {p \in FredResponses :
        /\ p.iorbFirst \in {start_date, end_date - 3}
        /\ p.sofrOffset = 0 /\ p.rrpStep = -1}
FewYfResponses == {q \in YfResponses : q.vixBase = 25 /\ q.moveFirst = start_date}

-----------------------------------------------------------------------------
(* The presenter and the recommendation rule *)

Unset == [kind |-> "unset", rows |-> << >>]
None == [kind |-> "None", rows |-> << >>]
Frame(t) == [kind |-> "frame", rows |-> t]

NoView == [set |-> FALSE]

CellGe(a, k) == a.ok /\ a.x >= k
CellGt(a, k) == a.ok /\ a.x > k

\* df.iloc[k] for a negative k
ILocInBounds(t, k) == 1 <= Len(t) + k + 1 /\ Len(t) + k + 1 <= Len(t)
ILoc(t, k) == t[Len(t) + k + 1].v

\* lines 92-99
StatusMsg(spread_val) ==
    IF CellGe(spread_val, CriticalSpread) THEN "critical"
    ELSE IF CellGt(spread_val, 0) THEN "warning"
    ELSE "normal"

\* the colour rule with a strict upper threshold
BarColor_strict(spread) ==
    IF CellGt(spread, CriticalSpread) THEN "red"
    ELSE IF CellGt(spread, 0) THEN "yellow"
    ELSE "green"

\* line 105
BarColor(spread) ==
    IF CellGe(spread, CriticalSpread) THEN "red"
    ELSE IF CellGt(spread, 0) THEN "yellow"
    ELSE "green"

\* the rule with the second branch tested first
FinalAction_swapped(spread_val, vix_val, liq_diff) ==
    IF CellGe(vix_val, FearLevel) /\ CellGt(liq_diff, 0) THEN "buy_the_dip"
    ELSE IF CellGe(spread_val, CriticalSpread) THEN "liquidate"
    ELSE "hold"

\* lines 148-162
FinalAction(spread_val, vix_val, liq_diff) ==
    IF CellGe(spread_val, CriticalSpread) THEN "liquidate"
    ELSE IF CellGe(vix_val, FearLevel) /\ CellGt(liq_diff, 0) THEN "buy_the_dip"
    ELSE "hold"

Panels ==
    {"liquidity_panel", "liquidity_chart", "health_panel", "health_chart",
     "sentiment_panel", "sentiment_chart", "recommendation"}

\* lines 55-162 for a frame t
Present(t) ==
    IF ~ILocInBounds(t, LastPos) \/ ~ILocInBounds(t, PrevPos)
    THEN [failure |-> "IndexError", shown |-> {}, view |-> NoView]
    ELSE LET last == ILoc(t, LastPos)
             prev == ILoc(t, PrevPos)
             liq_diff == CellSub(last["Net_Liquidity"], prev["Net_Liquidity"])
             spread_val == last["Rate_Spread"]
             vix_val == last["^VIX"]
         IN  [failure |-> "none",
              shown |-> Panels,
              view |-> [set |-> TRUE,
                        liq_diff |-> liq_diff,
                        spread_val |-> spread_val,
                        vix_val |-> vix_val,
                        status_msg |-> StatusMsg(spread_val),
                        colors |-> [i \in DOMAIN t |-> BarColor(t[i].v["Rate_Spread"])],
                        final_action |-> FinalAction(spread_val, vix_val, liq_diff)]]

-----------------------------------------------------------------------------
(* The memoized entry (line 20) *)

NoEntry == [present |-> FALSE, at |-> 0, value |-> Unset]
Entry(value, t) == [present |-> TRUE, at |-> t, value |-> value]

CacheValid == cache.present /\ now < cache.at + ttl

\* a failure that is not memoized
CacheAfterFredFailure_unstored(c, t) == c

\* what `return None` in the except block leaves in the cache
CacheAfterFredFailure(c, t) == Entry(None, t)

\* what an exception escaping the function leaves in the cache
CacheAfterYfFailure(c, t) == c

\* what `return df` leaves in the cache
CacheAfterReturn(c, value, t) == Entry(value, t)

HalfTtl == ttl \div 2

NoHist ==
    [computeAt |-> -1, recomputed |-> FALSE, failAt |-> -1,
     fetchAfterFail |-> FALSE, abortPending |-> FALSE]

\* a request goes out at time t
HistRequest(h, t) ==
    [h EXCEPT !.fetchAfterFail = @ \/ (h.failAt >= 0 /\ t < h.failAt + ttl)]

\* a fresh computation issues its first request at time t
HistCompute(h, t) ==
    [HistRequest(h, t) EXCEPT
        !.recomputed = @ \/ (h.computeAt >= 0 /\ t < h.computeAt + ttl),
        !.computeAt = t]

-----------------------------------------------------------------------------
(* Script runs *)

Init ==
    /\ pc = [s \in Sessions |-> "idle"]
    /\ lock = NoOwner
    /\ cache = NoEntry
    /\ now = 0
    /\ df = [s \in Sessions |-> Unset]
    /\ df_fred = [s \in Sessions |-> << >>]
    /\ df_yf = [s \in Sessions |-> << >>]
    /\ df_filled = [s \in Sessions |-> << >>]
    /\ requests = [s \in Sessions |-> {}]
    /\ raised = [s \in Sessions |-> "none"]
    /\ shown = [s \in Sessions |-> {}]
    /\ failure = [s \in Sessions |-> "none"]
    /\ view = [s \in Sessions |-> NoView]
    /\ hit = [s \in Sessions |-> NoEntry]
    /\ hist = NoHist

\* The page elements a cache hit replays: the error message recorded with a
\* memoized None.
Replayed(value) == IF value.kind = "None" THEN {"fred_error"} ELSE {}

\* lines 13-15 and the call at line 52: a script run starts and looks the
\* entry up
StartPass(s) ==
    /\ pc[s] \in {"idle", "done", "aborted"}
    /\ df_fred' = [df_fred EXCEPT ![s] = << >>]
    /\ df_yf' = [df_yf EXCEPT ![s] = << >>]
    /\ df_filled' = [df_filled EXCEPT ![s] = << >>]
    /\ requests' = [requests EXCEPT ![s] = {}]
    /\ raised' = [raised EXCEPT ![s] = "none"]
    /\ failure' = [failure EXCEPT ![s] = "none"]
    /\ view' = [view EXCEPT ![s] = NoView]
    /\ IF CacheValid
       THEN /\ pc' = [pc EXCEPT ![s] = "got"]
            /\ df' = [df EXCEPT ![s] = cache.value]
            /\ hit' = [hit EXCEPT ![s] = cache]
            /\ shown' = [shown EXCEPT ![s] = {"title"} \cup Replayed(cache.value)]
       ELSE /\ pc' = [pc EXCEPT ![s] = "wait_lock"]
            /\ df' = [df EXCEPT ![s] = Unset]
            /\ hit' = [hit EXCEPT ![s] = NoEntry]
            /\ shown' = [shown EXCEPT ![s] = {"title"}]
    /\ UNCHANGED <<lock, cache, now, hist>>

\* line 20: a miss takes the compute lock and looks the entry up again
AcquireLock(s) ==
    /\ pc[s] = "wait_lock"
    /\ lock = NoOwner
    /\ IF CacheValid
       THEN /\ pc' = [pc EXCEPT ![s] = "got"]
            /\ df' = [df EXCEPT ![s] = cache.value]
            /\ hit' = [hit EXCEPT ![s] = cache]
            /\ shown' = [shown EXCEPT ![s] = @ \cup Replayed(cache.value)]
            /\ lock' = lock
       ELSE /\ pc' = [pc EXCEPT ![s] = "fetch_fred"]
            /\ lock' = s
            /\ UNCHANGED <<df, hit, shown>>
    /\ UNCHANGED <<cache, now, df_fred, df_yf, df_filled, requests, raised,
                   failure, view, hist>>

\* line 29 returns a panel
FredOk(s, responses) ==
    /\ pc[s] = "fetch_fred"
    /\ \E p \in responses : df_fred' = [df_fred EXCEPT ![s] = FredPanel(p)]
    /\ requests' = [requests EXCEPT ![s] = @ \cup {"fred"}]
    /\ hist' = HistCompute(hist, now)
    /\ pc' = [pc EXCEPT ![s] = "fetch_yf"]
    /\ UNCHANGED <<lock, cache, now, df, df_yf, df_filled, raised, shown,
                   failure, view, hit>>

\* line 29 raises: lines 30-32
FredRaise(s) ==
    /\ pc[s] = "fetch_fred"
    /\ requests' = [requests EXCEPT ![s] = @ \cup {"fred"}]
    /\ raised' = [raised EXCEPT ![s] = "fred"]
    /\ shown' = [shown EXCEPT ![s] = @ \cup {"fred_error"}]
    /\ df' = [df EXCEPT ![s] = None]
    /\ cache' = CacheAfterFredFailure(cache, now)
    /\ lock' = NoOwner
    /\ hist' = [HistCompute(hist, now) EXCEPT !.failAt = now,
                                              !.abortPending = FALSE]
    /\ pc' = [pc EXCEPT ![s] = "got"]
    /\ UNCHANGED <<now, df_fred, df_yf, df_filled, failure, view, hit>>

\* line 36 returns the closes: lines 39-50
YahooOk(s, responses) ==
    /\ pc[s] = "fetch_yf"
    /\ \E q \in responses :
         LET yf == YfPanel(q)
             filled == Filled(df_fred[s], yf)
             result == Frame(Finish(filled))
         IN  /\ df_yf' = [df_yf EXCEPT ![s] = yf]
             /\ df_filled' = [df_filled EXCEPT ![s] = filled]
             /\ df' = [df EXCEPT ![s] = result]
             /\ cache' = CacheAfterReturn(cache, result, now)
    /\ requests' = [requests EXCEPT ![s] = @ \cup {"yahoo"}]
    /\ lock' = NoOwner
    /\ hist' = [HistRequest(hist, now) EXCEPT !.abortPending = FALSE]
    /\ pc' = [pc EXCEPT ![s] = "got"]
    /\ UNCHANGED <<now, df_fred, raised, shown, failure, view, hit>>

\* line 36 inside the try block: its failure handled like FRED's
YahooRaise_caught(s) ==
    /\ pc[s] = "fetch_yf"
    /\ requests' = [requests EXCEPT ![s] = @ \cup {"yahoo"}]
    /\ raised' = [raised EXCEPT ![s] = "yahoo"]
    /\ shown' = [shown EXCEPT ![s] = @ \cup {"fred_error"}]
    /\ df' = [df EXCEPT ![s] = None]
    /\ cache' = Entry(None, now)
    /\ lock' = NoOwner
    /\ hist' = [HistRequest(hist, now) EXCEPT !.abortPending = FALSE]
    /\ pc' = [pc EXCEPT ![s] = "got"]
    /\ UNCHANGED <<now, df_fred, df_yf, df_filled, failure, view, hit>>

\* line 36 raises: nothing catches it
YahooRaise(s) ==
    /\ pc[s] = "fetch_yf"
    /\ requests' = [requests EXCEPT ![s] = @ \cup {"yahoo"}]
    /\ raised' = [raised EXCEPT ![s] = "yahoo"]
    /\ failure' = [failure EXCEPT ![s] = "market_fetch_error"]
    /\ cache' = CacheAfterYfFailure(cache, now)
    /\ lock' = NoOwner
    /\ hist' = [HistRequest(hist, now) EXCEPT !.abortPending = TRUE]
    /\ pc' = [pc EXCEPT ![s] = "aborted"]
    /\ UNCHANGED <<now, df, df_fred, df_yf, df_filled, shown, view, hit>>

\* the guard of line 54 without its test
IsNone_never(d) == FALSE

\* line 54: `df is not None` fails
IsNone(d) == d.kind = "None"

\* lines 54-162
Render(s) ==
    /\ pc[s] = "got"
    /\ IF IsNone(df[s])
       THEN /\ pc' = [pc EXCEPT ![s] = "done"]
            /\ UNCHANGED <<shown, failure, view>>
       ELSE LET r == Present(df[s].rows)
            IN  /\ pc' = [pc EXCEPT ![s] =
                            IF r.failure = "none" THEN "done" ELSE "aborted"]
                /\ shown' = [shown EXCEPT ![s] = @ \cup r.shown]
                /\ failure' = [failure EXCEPT ![s] = r.failure]
                /\ view' = [view EXCEPT ![s] = r.view]
    /\ UNCHANGED <<lock, cache, now, df, df_fred, df_yf, df_filled, requests,
                   raised, hit, hist>>

\* the wall clock advances
Tick ==
    /\ now < MaxTicks * HalfTtl
    /\ now' = now + HalfTtl
    /\ UNCHANGED <<pc, lock, cache, df, df_fred, df_yf, df_filled, requests,
                   raised, shown, failure, view, hit, hist>>

Next ==
    \/ \E s \in Sessions :
          \/ StartPass(s)
          \/ AcquireLock(s)
          \/ FredOk(s, FewFredResponses)
          \/ FredRaise(s)
          \/ YahooOk(s, FewYfResponses)
          \/ YahooRaise(s)
          \/ Render(s)
    \/ Tick

Spec == Init /\ [][Next]_vars

\* One script run over every modelled response of the two sources, with both
\* fetches succeeding.
NextData ==
    \/ StartPass("s1")
    \/ AcquireLock("s1")
    \/ FredOk("s1", FredResponses)
    \/ YahooOk("s1", YfResponses)
    \/ Render("s1")

SpecData == Init /\ [][NextData]_vars

-----------------------------------------------------------------------------
(* Properties of the transformed table and of the presenter (SpecData) *)

HasFrame(s) == df[s].kind = "frame"
Rows(s) == df[s].rows
Computed(s) == HasFrame(s) /\ "yahoo" \in requests[s]

DerivedColumns == {"Net_Liquidity", "Rate_Spread", "Liq_MA20"}

C1_Outcome(spread, vix, delta) ==
    IF spread >= 5 THEN "liquidate"
    ELSE IF vix >= 25 /\ delta > 0 THEN "buy_the_dip"
    ELSE "hold"

\* C1: the recommendation is a total function of (spread, VIX, liquidity
\* delta) with three outcomes in fixed priority: liquidate if spread >= 0.05,
\* else buy the dip if VIX >= 25 and delta > 0, else hold.
C1_Recommendation ==
    \A s \in Sessions :
        view[s].set =>
            /\ view[s].spread_val.ok /\ view[s].vix_val.ok /\ view[s].liq_diff.ok
            /\ view[s].final_action \in {"liquidate", "buy_the_dip", "hold"}
            /\ view[s].final_action =
                  C1_Outcome(view[s].spread_val.x, view[s].vix_val.x,
                             view[s].liq_diff.x)
            /\ "recommendation" \in shown[s]

\* the first branch wins at its boundary although the second also holds
C1_Witness ==
    \E s \in Sessions :
        /\ view[s].set
        /\ view[s].spread_val.x = 5
        /\ view[s].vix_val.x >= 25
        /\ view[s].liq_diff.x > 0
        /\ view[s].final_action = "liquidate"

C2_Tier(x) ==
    CASE x >= 5 -> "critical"
      [] 0 < x /\ x < 5 -> "warning"
      [] x <= 0 -> "normal"

C2_Colour(tier) ==
    CASE tier = "critical" -> "red"
      [] tier = "warning" -> "yellow"
      [] tier = "normal" -> "green"

C2_TiersHolding(x) ==
    Cardinality({k \in {"critical", "warning", "normal"} :
                    \/ k = "critical" /\ x >= 5
                    \/ k = "warning" /\ 0 < x /\ x < 5
                    \/ k = "normal" /\ x <= 0})

\* C2: every spread value falls in exactly one of the tiers critical
\* (>= 0.05), warning (0 < spread < 0.05), normal (<= 0); the status message
\* is that tier and every bar of the chart is coloured by the same rule.
C2_Classification ==
    \A s \in Sessions :
        view[s].set =>
            /\ C2_TiersHolding(view[s].spread_val.x) = 1
            /\ view[s].status_msg = C2_Tier(view[s].spread_val.x)
            /\ view[s].spread_val = Rows(s)[Len(Rows(s))].v["Rate_Spread"]
            /\ DOMAIN view[s].colors = DOMAIN Rows(s)
            /\ \A i \in DOMAIN Rows(s) :
                  /\ C2_TiersHolding(Rows(s)[i].v["Rate_Spread"].x) = 1
                  /\ view[s].colors[i] =
                        C2_Colour(C2_Tier(Rows(s)[i].v["Rate_Spread"].x))

\* a chart with bars of all three colours, among them the boundary values
C2_Witness ==
    \E s \in Sessions :
        /\ view[s].set
        /\ {view[s].colors[i] : i \in DOMAIN view[s].colors}
              = {"red", "yellow", "green"}
        /\ \E i \in DOMAIN Rows(s) : Rows(s)[i].v["Rate_Spread"].x = 5
        /\ \E i \in DOMAIN Rows(s) : Rows(s)[i].v["Rate_Spread"].x = 0

\* C5 as stated: the returned table has no missing value in any row and any
\* column, raw and derived alike.
C5_NoMissingValue ==
    \A s \in Sessions :
        HasFrame(s) =>
            \A i \in DOMAIN Rows(s) :
                \A c \in DOMAIN Rows(s)[i].v : Rows(s)[i].v[c].ok

\* C5 as amended: the returned table has no missing value in any raw column
\* nor in Net_Liquidity and Rate_Spread; Liq_MA20 is missing in exactly the
\* rows before the 20th.
C5_NoMissingButRollingMean ==
    \A s \in Sessions :
        HasFrame(s) =>
            \A i \in DOMAIN Rows(s) :
                /\ DOMAIN Rows(s)[i].v = RawColumns \cup DerivedColumns
                /\ \A c \in DOMAIN Rows(s)[i].v \ {"Liq_MA20"} :
                      Rows(s)[i].v[c].ok
                /\ Rows(s)[i].v["Liq_MA20"].ok <=> i >= 20

\* a computed table from which leading rows were dropped and that is long
\* enough to hold the rolling mean
C5_Witness ==
    \E s \in Sessions :
        /\ Computed(s)
        /\ Len(Rows(s)) > 20
        /\ Len(Rows(s)) < Len(df_filled[s])

\* C6 as stated: the liquidity delta is Net_Liquidity of the last row minus
\* that of the row five row positions before the last row.
C6_FivePositionsEarlier ==
    \A s \in Sessions :
        (view[s].set /\ Len(Rows(s)) >= 6) =>
            view[s].liq_diff.x =
                Rows(s)[Len(Rows(s))].v["Net_Liquidity"].x
                    - Rows(s)[Len(Rows(s)) - 5].v["Net_Liquidity"].x

PanelOf(s, c) == IF c \in FredTickers THEN df_fred[s] ELSE df_yf[s]

\* the most recent non-missing observation of column c at or before day d
LastObserved(s, c, d) ==
    LET panel == PanelOf(s, c)
        seen == {j \in DOMAIN panel : panel[j].date <= d /\ panel[j].v[c].ok}
    IN  IF seen = {} THEN NaN
        ELSE panel[CHOOSE j \in seen :
                      \A k \in seen : panel[k].date <= panel[j].date].v[c]

EverythingObservedBy(s, d) == \A c \in RawColumns : LastObserved(s, c, d).ok

\* C8: after forward-fill every raw cell holds the most recent non-missing
\* observation of its column at or before its date; the rows dropped are
\* exactly those dated before the first date by which every column has been
\* observed, and the retained dates are consecutive days.
C8_FillAndTruncate ==
    \A s \in Sessions :
        Computed(s) =>
            /\ \A i \in DOMAIN df_filled[s] : \A c \in RawColumns :
                  df_filled[s][i].v[c] = LastObserved(s, c, df_filled[s][i].date)
            /\ Dates(Rows(s)) =
                  {d \in Dates(df_filled[s]) : EverythingObservedBy(s, d)}
            /\ \A d \in Dates(Rows(s)) : \A e \in Dates(df_filled[s]) :
                  e >= d => e \in Dates(Rows(s))
            /\ \A i \in DOMAIN Rows(s) :
                  /\ i > 1 => Rows(s)[i].date = Rows(s)[i - 1].date + 1
                  /\ \A c \in RawColumns :
                        Rows(s)[i].v[c] = LastObserved(s, c, Rows(s)[i].date)

\* a table whose first rows were dropped because one series starts late, and
\* whose retained rows hold carried-forward values
C8_Witness ==
    \E s \in Sessions :
        /\ Computed(s)
        /\ Len(Rows(s)) > 7
        /\ Rows(s)[1].date > start_date + 7
        /\ \E i \in DOMAIN Rows(s) :
              ~RowOn(df_fred[s], Rows(s)[i].date, FredTickers)["SOFR"].ok

\* C9: with fewer than 5 rows the presenter ends in an index-out-of-range
\* failure before any panel, chart or recommendation is rendered; with 5 or
\* more rows the row accesses do not fail.
C9_ShortTableFails ==
    \A s \in Sessions :
        (HasFrame(s) /\ pc[s] \in {"done", "aborted"} /\ raised[s] = "none") =>
            /\ Len(Rows(s)) < 5 =>
                  /\ pc[s] = "aborted"
                  /\ failure[s] = "IndexError"
                  /\ shown[s] \cap Panels = {}
                  /\ ~view[s].set
            /\ Len(Rows(s)) >= 5 =>
                  /\ pc[s] = "done"
                  /\ failure[s] = "none"
                  /\ Panels \subseteq shown[s]

\* a table of 4 rows: the last row exists, the fifth from last does not
C9_Witness ==
    \E s \in Sessions :
        /\ HasFrame(s)
        /\ Len(Rows(s)) = 4
        /\ failure[s] = "IndexError"

-----------------------------------------------------------------------------
(* Properties of the render pass and of the memoization (Spec) *)

\* C3: when the FRED fetch raises, the error is caught and an error message
\* is shown, and the pass halts: no market fetch, no table, no panel, chart or
\* recommendation, and no unhandled failure.
C3_MacroFailureHalts ==
    \A s \in Sessions :
        raised[s] = "fred" =>
            /\ "fred_error" \in shown[s]
            /\ requests[s] = {"fred"}
            /\ df_fred[s] = << >> /\ df_yf[s] = << >> /\ df_filled[s] = << >>
            /\ df[s] = None
            /\ shown[s] \cap Panels = {}
            /\ ~view[s].set
            /\ failure[s] = "none"
            /\ pc[s] \in {"got", "done"}

\* a pass that ended after its FRED fetch had raised
C3_Witness ==
    \E s \in Sessions : raised[s] = "fred" /\ pc[s] = "done"

\* C4: when the FRED fetch succeeds and the Yahoo fetch raises, the failure
\* is not caught: the pass aborts with it, without the application's error
\* message and without any panel, chart or recommendation.
C4_MarketFailureUnhandled ==
    \A s \in Sessions :
        raised[s] = "yahoo" =>
            /\ requests[s] = {"fred", "yahoo"}
            /\ df_fred[s] # << >>
            /\ pc[s] = "aborted"
            /\ failure[s] = "market_fetch_error"
            /\ "fred_error" \notin shown[s]
            /\ shown[s] \cap Panels = {}
            /\ ~view[s].set
            /\ df[s] = Unset

\* a pass aborted by the Yahoo fetch
C4_Witness ==
    \E s \in Sessions : raised[s] = "yahoo" /\ pc[s] = "aborted"

\* C7 as stated: a pass served by a valid entry performs no fetch and
\* observes the stored snapshot, and no two computations start within one
\* ttl of each other (at most one recompute per refresh interval).
C7_OneComputePerInterval ==
    /\ \A s \in Sessions :
          hit[s].present =>
              /\ requests[s] = {}
              /\ df[s] = hit[s].value
    /\ ~hist.recomputed

\* C10: a FRED failure is memoized: for one ttl after it the cache holds the
\* None result, no request goes to either source, and a pass served that
\* entry renders nothing; a Yahoo failure stores nothing, so until the next
\* store no entry is valid and the next pass computes again.
C10_FailureMemoized ==
    /\ (hist.failAt >= 0 /\ now < hist.failAt + ttl) =>
          /\ CacheValid
          /\ cache.value = None
          /\ cache.at = hist.failAt
    /\ ~hist.fetchAfterFail
    /\ \A s \in Sessions :
          (hit[s].present /\ hit[s].value = None) =>
              /\ requests[s] = {}
              /\ df[s] = None
              /\ shown[s] \cap Panels = {}
              /\ pc[s] \in {"got", "done"}
    /\ hist.abortPending => ~CacheValid
    /\ \A s \in Sessions :
          (pc[s] \in {"got", "done", "aborted"} /\ ~hit[s].present) =>
              /\ "fred" \in requests[s]
              /\ raised[s] # "fred" => "yahoo" \in requests[s]

\* a later pass, served the memoized failure, has ended without a fetch
C10_Witness ==
    \E s \in Sessions :
        /\ hit[s].present
        /\ hit[s].value = None
        /\ hit[s].at = hist.failAt
        /\ requests[s] = {}
        /\ pc[s] = "done"

====
